---- MODULE Spec2Model ----
(***************************************************************************)
(* Model of two files of the editor:                                       *)
(*   - userDataProfileIcons.ts: DEFAULT_ICON and the ordered list ICONS;   *)
(*   - the chat accessibility help: getAccessibilityHelpText,              *)
(*     descriptionForCommand and runAccessibilityHelpAction.               *)
(*                                                                         *)
(* Strings are sequences of tokens [k, n]: a piece of literal text (k is   *)
(* the localization key of the message it belongs to), a placeholder {n},  *)
(* a keybinding aria label (label number n), the text "undefined" that a   *)
(* substitution of the value undefined produces, a command id, or "\n".    *)
(***************************************************************************)
EXTENDS Integers, Sequences, FiniteSets, TLC

VARIABLES
    icons,        \* the exported array ICONS
    defaultIcon,  \* the exported constant DEFAULT_ICON
    keybindings,  \* keybinding service: command id -> 0 (no keybinding) or a label number
    textType,     \* argument `type` of a direct call of getAccessibilityHelpText
    textResult,   \* the string it returned (<<>> before the call)
    position,     \* editor -> cursor position (0: getPosition() returns null)
    focus,        \* what holds the keyboard focus
    invocations,  \* the closures of the invocations that passed the guards
    providers,    \* accessible view service: registered, not yet disposed providers
    calls,        \* accessible view service: the calls it received, in order
    lastCall,     \* the arguments of the last runAccessibilityHelpAction and its outcome
    served,       \* the last provideContent call: whose provider, what it returned
    kbChanges     \* how many times the user changed a keybinding

vars == <<icons, defaultIcon, keybindings, textType, textResult, position, focus,
          invocations, providers, calls, lastCall, served, kbChanges>>

\* ------------------------------------------------------------------ bounds

NumLabels == 2        \* distinct keybinding aria labels
MaxPos == 2           \* cursor positions 1..MaxPos
MaxInvocations == 2   \* invocations that pass the guards
MaxKbChanges == 1     \* keybinding changes by the user

\* ------------------------------------------------------------------ icons

DEFAULT_ICON == "settingsGear"

\* Faulty variant of ICONS: the default icon is listed with the misc icons, not first.
ICONS_DefaultAmongMisc ==
    <<"vm", "server", "recordKeys", "deviceMobile", "watch",
      "ruby", "code",
      "window", "library", "extensions", "terminal", "beaker", "package", "cloud",
      "book", "globe", "database", "notebook",
      "gift", DEFAULT_ICON, "send", "briefcase", "megaphone", "comment", "telescope",
      "creditCard", "map", "deviceCameraVideo", "unmute", "law", "graphLine", "heart",
      "home", "inbox", "mortarBoard", "rocket", "magnet", "lock", "milestone", "tag",
      "pulse", "radioTower", "smiley", "symbolEvent", "squirrel", "symbolColor", "mail",
      "key", "pieChart", "organization", "preview", "wand", "starEmpty", "lightbulb",
      "symbolRuler", "dashboard", "calendar", "shield", "flame", "compass",
      "paintcan", "archive", "mic">>

\* Faulty variant of ICONS: Codicon.lock is listed twice (in place of Codicon.key).
ICONS_LockTwice ==
    <<DEFAULT_ICON,
      "vm", "server", "recordKeys", "deviceMobile", "watch",
      "ruby", "code",
      "window", "library", "extensions", "terminal", "beaker", "package", "cloud",
      "book", "globe", "database", "notebook",
      "gift", "send", "briefcase", "megaphone", "comment", "telescope", "creditCard",
      "map", "deviceCameraVideo", "unmute", "law", "graphLine", "heart", "home",
      "inbox", "mortarBoard", "rocket", "magnet", "lock", "milestone", "tag", "pulse",
      "radioTower", "smiley", "symbolEvent", "squirrel", "symbolColor", "mail", "lock",
      "pieChart", "organization", "preview", "wand", "starEmpty", "lightbulb",
      "symbolRuler", "dashboard", "calendar", "shield", "flame", "compass",
      "paintcan", "archive", "mic">>

ICONS ==
    <<DEFAULT_ICON,
      "vm", "server", "recordKeys", "deviceMobile", "watch",
      "ruby", "code",
      "window", "library", "extensions", "terminal", "beaker", "package", "cloud",
      "book", "globe", "database", "notebook",
      "gift", "send", "briefcase", "megaphone", "comment", "telescope", "creditCard",
      "map", "deviceCameraVideo", "unmute", "law", "graphLine", "heart", "home",
      "inbox", "mortarBoard", "rocket", "magnet", "lock", "milestone", "tag", "pulse",
      "radioTower", "smiley", "symbolEvent", "squirrel", "symbolColor", "mail", "key",
      "pieChart", "organization", "preview", "wand", "starEmpty", "lightbulb",
      "symbolRuler", "dashboard", "calendar", "shield", "flame", "compass",
      "paintcan", "archive", "mic">>

\* ------------------------------------------------------------------ strings

Lit(key) == [k |-> key, n |-> 0]          \* literal text of the message `key`
Hole(i) == [k |-> "{}", n |-> i]          \* the placeholder {i}
LabelTok(l) == [k |-> "label", n |-> l]   \* an aria label
UndefinedTok == [k |-> "undefined", n |-> 0]
NewlineTok == [k |-> "\n", n |-> 0]

\* The value undefined, as an argument of localize/format: it is substituted as the
\* text "undefined".
Undefined == <<UndefinedTok>>

IsHole(t) == t.k = "{}"

RECURSIVE Flatten(_)
Flatten(ss) == IF ss = <<>> THEN <<>> ELSE Head(ss) \o Flatten(Tail(ss))

\* strings.format(value, ...args): with no argument the value itself; otherwise each
\* {i} with i < args.length is replaced by args[i], and any other {i} is left as is.
format(value, args) ==
    IF Len(args) = 0 THEN value
    ELSE Flatten([j \in 1..Len(value) |->
            IF IsHole(value[j]) /\ value[j].n < Len(args)
            THEN args[value[j].n + 1]
            ELSE <<value[j]>>])

\* nls.localize(key, message, ...args): with no argument the message itself;
\* otherwise every {i} is replaced by String(args[i]), "undefined" past the end.
localize(message, args) ==
    IF Len(args) = 0 THEN message
    ELSE Flatten([j \in 1..Len(message) |->
            IF IsHole(message[j])
            THEN IF message[j].n < Len(args) THEN args[message[j].n + 1] ELSE Undefined
            ELSE <<message[j]>>])

\* Array.prototype.join('\n')
RECURSIVE join(_)
join(content) ==
    IF content = <<>> THEN <<>>
    ELSE IF Len(content) = 1 THEN content[1]
    ELSE content[1] \o <<NewlineTok>> \o join(Tail(content))

\* The message literals of the file: the text of `key` with its placeholders.
Msg0(key) == <<Lit(key)>>
Msg1(key) == <<Lit(key), Hole(0)>>
Msg2(key) == <<Lit(key), Hole(0), Hole(1)>>

\* ------------------------------------------------------------------ keybindings

PanelCommands ==
    <<"chat.action.focus", "workbench.action.chat.focusInput",
      "workbench.action.chat.nextCodeBlock", "workbench.action.chat.clear">>

Commands ==
    {PanelCommands[i] : i \in 1..Len(PanelCommands)} \cup
    {"inlineChat.start", "inlineChat.previousFromHistory", "inlineChat.nextFromHistory",
     "editor.action.diffReview.next"}

Types == {"panelChat", "inlineChat"}

\* keybindingService.lookupKeybinding(commandId)?.getAriaLabel()
ariaLabel(kbs, commandId) ==
    IF kbs[commandId] = 0 THEN Undefined ELSE <<LabelTok(kbs[commandId])>>

\* JavaScript truthiness of a string | undefined
truthy(s) == s # Undefined /\ s # <<>>

\* ------------------------------------------------------------------ help text

descriptionForCommand(commandId, msg, noKbMsg, kbs) ==
    IF kbs[commandId] # 0
    THEN format(msg, <<ariaLabel(kbs, commandId)>>)
    ELSE format(noKbMsg, <<<<Lit(commandId)>>>>)

panelContent(kbs) ==
    << localize(Msg0("chat.overview"), <<>>),
       localize(Msg0("chat.requestHistory"), <<>>),
       localize(Msg0("chat.announcement"), <<>>),
       descriptionForCommand("chat.action.focus",
           localize(Msg1("workbench.action.chat.focus"), <<>>),
           localize(Msg0("workbench.action.chat.focusNoKb"), <<>>), kbs),
       descriptionForCommand("workbench.action.chat.focusInput",
           localize(Msg1("workbench.action.chat.focusInput"), <<>>),
           localize(Msg0("workbench.action.interactiveSession.focusInputNoKb"), <<>>), kbs),
       descriptionForCommand("workbench.action.chat.nextCodeBlock",
           localize(Msg1("workbench.action.chat.nextCodeBlock"), <<>>),
           localize(Msg0("workbench.action.chat.nextCodeBlockNoKb"), <<>>), kbs),
       descriptionForCommand("workbench.action.chat.clear",
           localize(Msg1("workbench.action.chat.clear"), <<>>),
           localize(Msg0("workbench.action.chat.clearNoKb"), <<>>), kbs) >>

\* content.push(localize('inlineChat.requestHistory', '... {0} and {1} ...'),
\*              upHistoryKeybinding, downHistoryKeybinding):
\* localize gets no argument; push gets three.
historyContent(kbs) ==
    LET upHistoryKeybinding == ariaLabel(kbs, "inlineChat.previousFromHistory")
        downHistoryKeybinding == ariaLabel(kbs, "inlineChat.nextFromHistory")
    IN  IF truthy(upHistoryKeybinding) /\ truthy(downHistoryKeybinding)
        THEN << localize(Msg2("inlineChat.requestHistory"), <<>>),
                upHistoryKeybinding, downHistoryKeybinding >>
        ELSE <<>>

inlineContent(kbs) ==
    LET startChatKeybinding == ariaLabel(kbs, "inlineChat.start")
        diffReviewKeybinding == ariaLabel(kbs, "editor.action.diffReview.next")
    IN  << localize(Msg0("inlineChat.overview"), <<>>),
           localize(Msg1("inlineChat.access"), <<startChatKeybinding>>) >>
        \o historyContent(kbs)
        \o << localize(Msg0("inlineChat.contextActions"), <<>>),
              localize(Msg0("inlineChat.fix"), <<>>),
              IF truthy(diffReviewKeybinding)
              THEN localize(Msg1("inlineChat.diff"), <<diffReviewKeybinding>>)
              ELSE localize(Msg0("inlineChat.diffNoKb"), <<>>),
              localize(Msg0("inlineChat.explain"), <<>>),
              localize(Msg0("inlineChat.toolbar"), <<>>) >>

helpContent(kbs, type) ==
    (IF type = "panelChat" THEN panelContent(kbs) ELSE inlineContent(kbs))
    \o << localize(Msg0("chat.audioCues"), <<>>) >>

getAccessibilityHelpText(kbs, type) == join(helpContent(kbs, type))

\* ------------------------------------------------------------------ editors

Editors == {"codeEditor", "chatInput"}
NoEditor == "undefined"
NoPosition == 0
Positions == 1..MaxPos
FocusTargets == {"elsewhere", "chatInput", "inlineChat"}
Widgets == {"none", "noInputEditor", "widget"}

\* const inputEditor = type === 'panelChat' ? widgetService.lastFocusedWidget?.inputEditor : editor
inputEditorOf(type, widget) ==
    IF type = "panelChat"
    THEN IF widget = "widget" THEN "chatInput" ELSE NoEditor
    ELSE "codeEditor"

\* Faulty variant of passesGuards: the DOM node is not checked.
passesGuardsNoDomNode(type, widget, hasUri, hasDomNode) ==
    inputEditorOf(type, widget) # NoEditor /\ hasUri

\* The two guards: !inputEditor || !editorUri, then !domNode.
passesGuards(type, widget, hasUri, hasDomNode) ==
    /\ inputEditorOf(type, widget) # NoEditor /\ hasUri
    /\ hasDomNode

Call(type, widget, hasUri, hasDomNode, outcome) ==
    [type |-> type, widget |-> widget, hasUri |-> hasUri, hasDomNode |-> hasDomNode,
     outcome |-> outcome]

\* The object passed to registerProvider, with what its closures captured.
Closure(type, inputEditor, cachedPosition, helpText, kbs) ==
    [type |-> type, inputEditor |-> inputEditor, cachedPosition |-> cachedPosition,
     helpText |-> helpText, keybindingsThen |-> kbs, closed |-> FALSE]

Invoked == 1..Len(invocations)

\* ------------------------------------------------------------------ operations

\* runAccessibilityHelpAction(accessor, editor, type); the function awaits nothing,
\* so it runs to its end in one step.
runAccessibilityHelpAction(type, widget, hasUri, hasDomNode) ==
    LET inputEditor == inputEditorOf(type, widget) IN
    IF ~passesGuards(type, widget, hasUri, hasDomNode)
    THEN /\ lastCall' = Call(type, widget, hasUri, hasDomNode, "returned")
         /\ UNCHANGED <<icons, defaultIcon, keybindings, textType, textResult, position,
                        focus, invocations, providers, calls, served, kbChanges>>
    ELSE /\ Len(invocations) < MaxInvocations
         /\ LET cachedPosition == position[inputEditor]
                helpText == getAccessibilityHelpText(keybindings, type)
                provider == Len(invocations) + 1
            IN  /\ invocations' = Append(invocations,
                       Closure(type, inputEditor, cachedPosition, helpText, keybindings))
                /\ providers' = providers \cup {provider}
                /\ calls' = calls \o << [op |-> "registerProvider", id |-> type, by |-> provider],
                                        [op |-> "show", id |-> type, by |-> provider] >>
         /\ lastCall' = Call(type, widget, hasUri, hasDomNode, "shown")
         /\ UNCHANGED <<icons, defaultIcon, keybindings, textType, textResult, position,
                        focus, served, kbChanges>>

\* The body of onClose before provider.dispose(): where cursor and focus go.
\* hasController: InlineChatController.get(editor) is defined.
restoreFocus(c, hasController) ==
    IF c.type = "panelChat" /\ c.cachedPosition # NoPosition
    THEN /\ position' = [position EXCEPT ![c.inputEditor] = c.cachedPosition]
         /\ focus' = c.inputEditor
    ELSE IF c.type = "inlineChat"
    THEN /\ focus' = IF hasController THEN "inlineChat" ELSE focus
         /\ UNCHANGED position
    ELSE UNCHANGED <<position, focus>>

\* Faulty variant of onClose: provider.dispose() sits inside the two branches.
onCloseDisposingInBranches(i, hasController) ==
    LET c == invocations[i] IN
    /\ i \in providers
    /\ restoreFocus(c, hasController)
    /\ providers' = IF (c.type = "panelChat" /\ c.cachedPosition # NoPosition)
                       \/ c.type = "inlineChat"
                    THEN providers \ {i} ELSE providers
    /\ invocations' = [invocations EXCEPT ![i].closed = TRUE]
    /\ UNCHANGED <<icons, defaultIcon, keybindings, textType, textResult, calls,
                   lastCall, served, kbChanges>>

\* Faulty variant of onClose: it sorts the shared icon array in place (the default icon
\* leaves the front).
onCloseSortingIcons(i, hasController) ==
    LET c == invocations[i] IN
    /\ i \in providers
    /\ restoreFocus(c, hasController)
    /\ providers' = providers \ {i}
    /\ invocations' = [invocations EXCEPT ![i].closed = TRUE]
    /\ icons' = Tail(icons) \o <<Head(icons)>>
    /\ UNCHANGED <<defaultIcon, keybindings, textType, textResult, calls,
                   lastCall, served, kbChanges>>

\* The onClose callback of invocation i, run by the accessible view service when the
\* overlay of a registered provider closes.
onClose(i, hasController) ==
    LET c == invocations[i] IN
    /\ i \in providers
    /\ restoreFocus(c, hasController)
    /\ providers' = providers \ {i}
    /\ invocations' = [invocations EXCEPT ![i].closed = TRUE]
    /\ UNCHANGED <<icons, defaultIcon, keybindings, textType, textResult, calls,
                   lastCall, served, kbChanges>>

\* Faulty variant of provideContent: the text is computed when the content is asked for.
provideContentComputedLate(i) ==
    /\ i \in providers
    /\ served' = [by |-> i,
                  content |-> getAccessibilityHelpText(keybindings, invocations[i].type)]
    /\ UNCHANGED <<icons, defaultIcon, keybindings, textType, textResult, position,
                   focus, invocations, providers, calls, lastCall, kbChanges>>

\* provideContent: () => helpText, called by the service on a registered provider.
provideContent(i) ==
    /\ i \in providers
    /\ served' = [by |-> i, content |-> invocations[i].helpText]
    /\ UNCHANGED <<icons, defaultIcon, keybindings, textType, textResult, position,
                   focus, invocations, providers, calls, lastCall, kbChanges>>

\* The user moves the cursor of an editor.
moveCursor(e, p) ==
    /\ position[e] # NoPosition
    /\ position' = [position EXCEPT ![e] = p]
    /\ UNCHANGED <<icons, defaultIcon, keybindings, textType, textResult, focus,
                   invocations, providers, calls, lastCall, served, kbChanges>>

\* The user moves the keyboard focus.
moveFocus(f) ==
    /\ focus' = f
    /\ UNCHANGED <<icons, defaultIcon, keybindings, textType, textResult, position,
                   invocations, providers, calls, lastCall, served, kbChanges>>

\* The user binds (l > 0) or unbinds (l = 0) a command.
changeKeybinding(c, l) ==
    /\ kbChanges < MaxKbChanges
    /\ keybindings[c] # l
    /\ keybindings' = [keybindings EXCEPT ![c] = l]
    /\ kbChanges' = kbChanges + 1
    /\ UNCHANGED <<icons, defaultIcon, textType, textResult, position, focus,
                   invocations, providers, calls, lastCall, served>>

\* A direct call of getAccessibilityHelpText(accessor, textType).
callGetAccessibilityHelpText ==
    /\ textResult = <<>>
    /\ textResult' = getAccessibilityHelpText(keybindings, textType)
    /\ UNCHANGED <<icons, defaultIcon, keybindings, textType, position, focus,
                   invocations, providers, calls, lastCall, served, kbChanges>>

\* ------------------------------------------------------------------ specifications

NoCall == Call("panelChat", "none", FALSE, FALSE, "none")
NotServed == [by |-> 0, content |-> <<>>]

\* Every command unbound, or every command bound to the label l.
Uniform(l) == [c \in Commands |-> l]

InitCommon ==
    /\ icons = ICONS
    /\ defaultIcon = DEFAULT_ICON
    /\ textResult = <<>>
    /\ invocations = <<>>
    /\ providers = {}
    /\ calls = <<>>
    /\ lastCall = NoCall
    /\ served = NotServed
    /\ kbChanges = 0

\* The overlay's life: invocations that pass the guards, the overlays' closing, and
\* the user moving cursor and focus in between. (A call that returns early changes
\* nothing; SpecGuards has them.)
Init ==
    /\ InitCommon
    /\ keybindings \in {Uniform(0), Uniform(1)}
    /\ textType = "panelChat"
    /\ position \in [Editors -> {NoPosition} \cup Positions]
    /\ focus = "elsewhere"

Next ==
    \/ \E type \in Types : runAccessibilityHelpAction(type, "widget", TRUE, TRUE)
    \/ \E i \in Invoked, hasController \in BOOLEAN : onClose(i, hasController)
    \/ \E e \in Editors, p \in Positions : moveCursor(e, p)
    \/ \E f \in FocusTargets : moveFocus(f)

Spec == Init /\ [][Next]_vars

\* The guards: calls with every combination of present and absent optional values,
\* from every position and focus.
InitGuards ==
    /\ InitCommon
    /\ keybindings \in {Uniform(0), Uniform(1)}
    /\ textType = "panelChat"
    /\ position \in [Editors -> {NoPosition} \cup Positions]
    /\ focus \in FocusTargets

NextGuards ==
    \/ \E type \in Types, widget \in Widgets, hasUri \in BOOLEAN, hasDomNode \in BOOLEAN :
          runAccessibilityHelpAction(type, widget, hasUri, hasDomNode)
    \/ \E i \in Invoked, hasController \in BOOLEAN : onClose(i, hasController)

SpecGuards == InitGuards /\ [][NextGuards]_vars

\* The content served: invocations, keybinding changes and provideContent calls.
InitContent ==
    /\ InitCommon
    /\ keybindings = Uniform(0)
    /\ textType = "panelChat"
    /\ position = [e \in Editors |-> 1]
    /\ focus = "elsewhere"

NextContent ==
    \/ \E type \in Types : runAccessibilityHelpAction(type, "widget", TRUE, TRUE)
    \/ \E i \in Invoked : provideContent(i)
    \/ \E c \in Commands, l \in 0..NumLabels : changeKeybinding(c, l)
    \/ \E i \in Invoked : onClose(i, TRUE)

SpecContent == InitContent /\ [][NextContent]_vars

\* getAccessibilityHelpText as a function of the keybindings and the type.
InitText ==
    /\ InitCommon
    /\ keybindings \in [Commands -> 0..NumLabels]
    /\ textType \in Types
    /\ position = [e \in Editors |-> 1]
    /\ focus = "elsewhere"

NextText == callGetAccessibilityHelpText

SpecText == InitText /\ [][NextText]_vars

\* ------------------------------------------------------------------ claims

IconIndex == DOMAIN icons

\* C5: ICONS has one designated default element: DEFAULT_ICON is Codicon.settingsGear,
\* it is a member of ICONS, and it is the first element in display order.
C5_DefaultIconFirst ==
    /\ defaultIcon = "settingsGear"
    /\ \E i \in IconIndex : icons[i] = defaultIcon
    /\ icons # <<>> /\ Head(icons) = defaultIcon

C5_Witness ==
    /\ Len(icons) = 63
    /\ icons[1] = "settingsGear" /\ icons[2] = "vm" /\ icons[63] = "mic"
    /\ Len(invocations) = MaxInvocations

\* C6: no icon identifier occurs at two different positions of ICONS; DEFAULT_ICON
\* occurs exactly once.
C6_IconsUnique ==
    /\ \A i, j \in IconIndex : icons[i] = icons[j] => i = j
    /\ Cardinality({i \in IconIndex : icons[i] = defaultIcon}) = 1

C6_Witness ==
    /\ Cardinality({icons[i] : i \in IconIndex}) = 63
    /\ \E i \in IconIndex : icons[i] = "lock"
    /\ \E i \in IconIndex : icons[i] = "key"
    /\ providers # {}

\* C7: the icon collection is never mutated: whatever the program does, ICONS holds
\* the elements it held at initialization, in the same order, and DEFAULT_ICON is
\* unchanged.
C7_IconsNeverMutated ==
    /\ [](icons = ICONS /\ defaultIcon = DEFAULT_ICON)
    /\ [][icons' = icons /\ defaultIcon' = defaultIcon]_vars

C7_Witness ==
    /\ Len(invocations) = MaxInvocations
    /\ \A i \in Invoked : invocations[i].closed
    /\ focus = "chatInput"
    /\ icons = ICONS

\* An optional value of the call is absent: no last focused widget or no input editor
\* of it ('panelChat'), no document, no DOM node.
Absent(call) ==
    \/ call.type = "panelChat" /\ call.widget \in {"none", "noInputEditor"}
    \/ ~call.hasUri
    \/ ~call.hasDomNode

\* C1: a call of runAccessibilityHelpAction with an optional value absent returns
\* early: it registers no provider, does not call show, and leaves position and focus
\* of the editors as they were; no call with an absent value ever shows the overlay.
C1_EarlyReturn ==
    /\ [](Absent(lastCall) => lastCall.outcome # "shown")
    /\ [][(lastCall' # lastCall /\ Absent(lastCall'))
            => /\ lastCall'.outcome = "returned"
               /\ UNCHANGED <<providers, calls, invocations, position, focus>>]_vars

C1_Witness ==
    /\ lastCall.outcome = "returned"
    /\ lastCall.type = "panelChat" /\ lastCall.widget = "widget"
    /\ lastCall.hasUri /\ ~lastCall.hasDomNode
    /\ Len(invocations) = 1 /\ providers = {1}

RegisteredBy(i) == {n \in DOMAIN calls : calls[n].op = "registerProvider" /\ calls[n].by = i}

\* C2: each invocation that passes the guards registers exactly one provider; the
\* provider is disposed once its onClose has run, whatever the type and the branch,
\* never before, and a step that runs an onClose disposes the provider of that
\* invocation and no other.
C2_ProviderLifetime ==
    /\ [](\A i \in Invoked :
            /\ Cardinality(RegisteredBy(i)) = 1
            /\ invocations[i].closed <=> i \notin providers)
    /\ [](providers \subseteq Invoked)
    /\ [][\A i \in Invoked :
            (~invocations[i].closed /\ invocations'[i].closed)
                => providers' = providers \ {i}]_vars
    /\ [][\A i \in Invoked :
            (i \in providers /\ i \notin providers')
                => ~invocations[i].closed /\ invocations'[i].closed]_vars

C2_Witness ==
    /\ Len(invocations) = 2
    /\ invocations[2].type = "panelChat" /\ invocations[2].cachedPosition = NoPosition
    /\ invocations[2].closed /\ ~invocations[1].closed
    /\ providers = {1}

\* The lines of a text: the pieces between its "\n".
RECURSIVE SplitLines(_, _)
SplitLines(text, line) ==
    IF text = <<>> THEN <<line>>
    ELSE IF Head(text) = NewlineTok
         THEN <<line>> \o SplitLines(Tail(text), <<>>)
         ELSE SplitLines(Tail(text), Append(line, Head(text)))

Lines(text) == SplitLines(text, <<>>)

PanelKeys ==
    {"chat.overview", "chat.requestHistory", "chat.announcement",
     "workbench.action.chat.focus", "workbench.action.chat.focusNoKb",
     "workbench.action.chat.focusInput", "workbench.action.interactiveSession.focusInputNoKb",
     "workbench.action.chat.nextCodeBlock", "workbench.action.chat.nextCodeBlockNoKb",
     "workbench.action.chat.clear", "workbench.action.chat.clearNoKb"}

InlineKeys ==
    {"inlineChat.overview", "inlineChat.access", "inlineChat.requestHistory",
     "inlineChat.contextActions", "inlineChat.fix", "inlineChat.diff",
     "inlineChat.diffNoKb", "inlineChat.explain", "inlineChat.toolbar"}

AudioCuesLine == <<Lit("chat.audioCues")>>

\* A line that is the message of one of the keys (its text comes first).
IsMessageOf(line, keys) == line # <<>> /\ line[1].n = 0 /\ line[1].k \in keys

\* The description of a command: the message with the label when the command has a
\* keybinding, the no-keybinding message when it has none.
Described(kbs, commandId, key, noKbKey) ==
    IF kbs[commandId] # 0 THEN <<Lit(key), LabelTok(kbs[commandId])>> ELSE <<Lit(noKbKey)>>

PanelLines(kbs) ==
    << <<Lit("chat.overview")>>, <<Lit("chat.requestHistory")>>, <<Lit("chat.announcement")>>,
       Described(kbs, "chat.action.focus",
                 "workbench.action.chat.focus", "workbench.action.chat.focusNoKb"),
       Described(kbs, "workbench.action.chat.focusInput",
                 "workbench.action.chat.focusInput",
                 "workbench.action.interactiveSession.focusInputNoKb"),
       Described(kbs, "workbench.action.chat.nextCodeBlock",
                 "workbench.action.chat.nextCodeBlock",
                 "workbench.action.chat.nextCodeBlockNoKb"),
       Described(kbs, "workbench.action.chat.clear",
                 "workbench.action.chat.clear", "workbench.action.chat.clearNoKb"),
       AudioCuesLine >>

Called == textResult # <<>>
Keys(text) == {text[j].k : j \in DOMAIN text}

\* C3: the text of getAccessibilityHelpText is decided by the type. For 'panelChat' it
\* is the three overview messages, the four command descriptions and the audio cues
\* message, one per line; for 'inlineChat' every line is an inline chat message or the
\* audio cues message; no message of one mode is in the text of the other; the last
\* line is the audio cues message.
C3_TextByType ==
    Called =>
        LET lines == Lines(textResult) IN
        /\ textType = "panelChat" =>
              /\ lines = PanelLines(keybindings)
              /\ Keys(textResult) \cap InlineKeys = {}
        /\ textType = "inlineChat" =>
              /\ \A j \in DOMAIN lines :
                    IsMessageOf(lines[j], InlineKeys \cup {"chat.audioCues"})
              /\ Keys(textResult) \cap PanelKeys = {}
        /\ lines[Len(lines)] = AudioCuesLine

\* C4: no message of the help text is formatted with an undefined keybinding label:
\* the text "undefined" is nowhere in the result.
C4_NoUndefinedSubstituted ==
    Called => \A j \in DOMAIN textResult : textResult[j] # UndefinedTok

HistoryLines(lines) == {j \in DOMAIN lines : IsMessageOf(lines[j], {"inlineChat.requestHistory"})}

\* C8: for 'inlineChat', with both history keybindings the text has exactly one
\* request-history line, in which {0} and {1} are replaced by the two labels; with one
\* of them missing it has none; and the text never has an unresolved placeholder or a
\* line that is only a keybinding label.
C8_RequestHistoryLine ==
    (Called /\ textType = "inlineChat") =>
        LET lines == Lines(textResult)
            up == keybindings["inlineChat.previousFromHistory"]
            down == keybindings["inlineChat.nextFromHistory"]
        IN  /\ (up # 0 /\ down # 0) =>
                  /\ Cardinality(HistoryLines(lines)) = 1
                  /\ \A j \in HistoryLines(lines) :
                        lines[j] = <<Lit("inlineChat.requestHistory"), LabelTok(up), LabelTok(down)>>
            /\ (up = 0 \/ down = 0) => HistoryLines(lines) = {}
            /\ \A j \in DOMAIN textResult : ~IsHole(textResult[j])
            /\ \A j \in DOMAIN lines : ~(Len(lines[j]) = 1 /\ lines[j][1].k = "label")

Closing(i) == ~invocations[i].closed /\ invocations'[i].closed

\* C9: when the overlay closes, focus returns to where the help was invoked. For
\* 'panelChat' the input editor gets the position cached at invocation and the focus,
\* always; for 'inlineChat' the inline chat controller (when the editor has one) gets
\* the focus and the position of the editor is not changed.
C9_FocusReturns ==
    [][\A i \in Invoked :
        Closing(i) =>
            LET c == invocations[i] IN
            /\ c.type = "panelChat" =>
                  /\ position'[c.inputEditor] = c.cachedPosition
                  /\ focus' = c.inputEditor
            /\ c.type = "inlineChat" =>
                  /\ focus' \in {"inlineChat", focus}
                  /\ position' = position]_vars

\* C10: an invocation that passes the guards registers its provider and then shows
\* the view, once, under the id (the type) of the provider; what provideContent
\* returns is the help text of the keybindings at the invocation, also after the
\* keybindings changed.
C10_ContentFixedAtInvocation ==
    /\ Len(calls) = 2 * Len(invocations)
    /\ \A i \in Invoked :
          /\ calls[2 * i - 1] = [op |-> "registerProvider", id |-> invocations[i].type, by |-> i]
          /\ calls[2 * i] = [op |-> "show", id |-> invocations[i].type, by |-> i]
    /\ served.by # 0 =>
          served.content = getAccessibilityHelpText(invocations[served.by].keybindingsThen,
                                                    invocations[served.by].type)

C10_Witness ==
    /\ served.by # 0
    /\ served.by \in providers
    /\ keybindings # invocations[served.by].keybindingsThen
    /\ served.content # getAccessibilityHelpText(keybindings, invocations[served.by].type)

====
